---- MODULE Spec2Model ----
(***************************************************************************)
(* A model of paulgrammer/workerd: the configuration merger                *)
(* (config_merger.go), the connection-config validation (config.go), the   *)
(* server builder (server.go), the Workerd constructor (workerd.go with    *)
(* the configuration loader it compiles against), the service control of  *)
(* Workerd and of the ServiceManager, and the command-line flag layer     *)
(* (workerd_flags.go).                                                     *)
(*                                                                         *)
(* Go values are modelled as follows.  The ConfigMerger holds its          *)
(* *workerConfig sources as pointers into `heap` (NIL is the nil pointer), *)
(* so that two holders of the same pointer see the same object; other      *)
(* pointers to structs are modelled by value, with NILREC for nil.  An     *)
(* error is a sequence of message tags, outermost wrapper first; the nil   *)
(* error is the empty sequence.  time.Duration values are counted in       *)
(* seconds.                                                                *)
(***************************************************************************)
EXTENDS Integers, Sequences, FiniteSets, TLC

VARIABLES
    heap,            \* the *workerConfig objects the caller owns, by pointer
    cm,              \* the ConfigMerger: defaultConfig, fileConfig, optionsConfig
    mergePc,         \* the caller of the merger: "building" or "merged"
    mergeOut,        \* what the last Merge returned
    validateIn,      \* the AsynqConfig handed to validate
    validateOut,     \* what validate returned for it
    sb,              \* the ServerBuilder (NILREC before NewServerBuilder succeeded)
    buildOut,        \* what the last ServerBuilder call returned
    newServerCalls,  \* the arguments of every asynq.NewServer call, in order
    env,             \* what the config file and the environment hold
    opts,            \* the functional options handed to NewWorkerd
    w,               \* the Workerd (NILREC before NewWorkerd returned)
    exited,          \* NewWorkerd ended the process with os.Exit(1)
    sm,              \* the ServiceManager (NILREC before NewServiceManager succeeded)
    callPc,          \* where the service facility's Run is: "idle" when no run
                     \* action is in progress
    ctlOut,          \* the last Workerd.Run / HandleControl call and what it returned
    nCalls,          \* how many Workerd.Run / HandleControl calls were made
    lifecycle,       \* the lifecycle state the hooks have driven the worker to
    srvState,        \* what the asynq server last answered: "new", "started",
                     \* "start_failed" or "shutdown"
    hookLog,         \* the hook entries and returns and the asynq server calls, in order
    facilityCalls,   \* the calls of the service facility's Run and Control, in order
    chans,           \* the error channels made so far, each with its drain goroutine
    sent,            \* per channel, everything the facility has put on it
    logged,          \* the errors the drain goroutines have logged, in order
    argv,            \* the command line given to the flag layer
    flags            \* the parsed cliFlags (NILREC before parseFlags)

vars == << heap, cm, mergePc, mergeOut, validateIn, validateOut, sb,
           buildOut, newServerCalls, env, opts, w, exited,
           sm, callPc, ctlOut, nCalls, lifecycle, srvState, hookLog,
           facilityCalls, chans, sent, logged, argv, flags >>

mergeVars == << heap, cm, mergePc, mergeOut >>
validateVars == << validateIn, validateOut >>
serverVars == << sb, buildOut >>
workerdVars == << env, opts, w, exited >>
controlVars == << sm, callPc, ctlOut, nCalls, facilityCalls >>
hookVars == << lifecycle, srvState, hookLog >>
drainVars == << chans, sent, logged >>
serviceVars == << controlVars, hookVars, drainVars >>
flagVars == << argv, flags >>

\* the nil pointer into heap
NIL == "<nil>"

\* the nil value of a pointer to a struct that is modelled by value
NILREC == [ isNil |-> TRUE ]

\* ------------------------------------------------------------------ bounds

\* concurrency values range over -1 .. MaxConc
MaxConc == 2
\* redis DB indices range over -1 .. MaxDB
MaxDB == 1
\* pool sizes range over -1 .. MaxPool
MaxPool == 1
\* timeouts (seconds) range over -1 .. MaxTimeout
MaxTimeout == 1
\* NewWorkerd is given at most MaxOpts options
MaxOpts == 2
\* at most MaxCalls asynq.NewServer calls are followed
MaxCalls == 2

ConcValues == -1 .. MaxConc

\* ------------------------------------------------------------------ errors

ErrNil == << >>

Errorf(msg) == << msg >>

\* fmt.Errorf("msg: %w", err)
Wrap(msg, err) == << msg >> \o err

\* ------------------------------------------------------- connection config

\* struct tag defaults of RedisClient and workerConfig
DefaultNetwork == "tcp"
DefaultAddr == "127.0.0.1:6379"
DefaultDB == 0
DefaultDialTimeout == 5
DefaultReadTimeout == 3
DefaultWriteTimeout == 3
DefaultPoolSize == 10
DefaultConfigName == "workerd"
DefaultConfigDisplayName == "Workerd Service"
DefaultConfigDescription == "Default background worker service"
DefaultConfigConcurrency == 10

\* An AsynqConfig (its RedisClient) with every field valid.
ValidAsynq ==
    [ Network |-> DefaultNetwork, Addr |-> DefaultAddr, Username |-> "",
      Password |-> "", DB |-> DefaultDB, DialTimeout |-> DefaultDialTimeout,
      ReadTimeout |-> DefaultReadTimeout, WriteTimeout |-> DefaultWriteTimeout,
      PoolSize |-> DefaultPoolSize ]

\* The mutant of validate that stops after the pool-size rule.
validateNoTimeouts(a) ==
    IF a.Addr = "" THEN Errorf("redis address cannot be empty")
    ELSE IF a.Network = "" THEN Errorf("redis network cannot be empty")
    ELSE IF a.DB < 0 THEN Errorf("redis DB must be non-negative")
    ELSE IF a.PoolSize <= 0 THEN Errorf("redis pool size must be positive")
    ELSE ErrNil

\* AsynqConfig.validate
validate(a) ==
    IF a.Addr = "" THEN Errorf("redis address cannot be empty")
    ELSE IF a.Network = "" THEN Errorf("redis network cannot be empty")
    ELSE IF a.DB < 0 THEN Errorf("redis DB must be non-negative")
    ELSE IF a.PoolSize <= 0 THEN Errorf("redis pool size must be positive")
    ELSE IF a.DialTimeout <= 0 THEN Errorf("redis dial timeout must be positive")
    ELSE IF a.ReadTimeout <= 0 THEN Errorf("redis read timeout must be positive")
    ELSE IF a.WriteTimeout <= 0 THEN Errorf("redis write timeout must be positive")
    ELSE ErrNil

\* asynq.RedisClientOpt built from the RedisClient fields
RedisClientOpt(a) ==
    [ Network |-> a.Network, Addr |-> a.Addr, Username |-> a.Username,
      Password |-> a.Password, DB |-> a.DB, DialTimeout |-> a.DialTimeout,
      ReadTimeout |-> a.ReadTimeout, WriteTimeout |-> a.WriteTimeout,
      PoolSize |-> a.PoolSize ]

\* AsynqConfig.GetRedisClientOpt of config.go: (opt, err)
GetRedisClientOpt(a) ==
    IF a = NILREC
    THEN [ opt |-> NILREC, err |-> Errorf("AsynqConfig is nil") ]
    ELSE IF validate(a) # ErrNil
    THEN [ opt |-> NILREC, err |-> Wrap("invalid asynq configuration", validate(a)) ]
    ELSE [ opt |-> RedisClientOpt(a), err |-> ErrNil ]

\* validateWorkerConfig of config.go; config is a workerConfig value or NILREC
validateWorkerConfig(config) ==
    IF config = NILREC THEN Errorf("config cannot be nil")
    ELSE IF config.AsynqConfig = NILREC THEN Errorf("asynq configuration is required")
    ELSE IF config.Concurrency < 0 THEN Errorf("concurrency must be non-negative")
    ELSE IF validate(config.AsynqConfig) # ErrNil
    THEN Wrap("asynq configuration invalid", validate(config.AsynqConfig))
    ELSE ErrNil

\* a workerConfig value
WorkerConfig(asynq, name, displayName, description, concurrency) ==
    [ AsynqConfig |-> asynq, LogLevel |-> "DEBUG", Name |-> name,
      DisplayName |-> displayName, Description |-> description,
      Concurrency |-> concurrency ]

\* ------------------------------------------------------------ ConfigMerger

\* the two *workerConfig objects the caller of the merger owns
Ptrs == { "pD", "pF" }

\* &ConfigMerger{}
EmptyMerger == [ defaultConfig |-> NIL, fileConfig |-> NIL, optionsConfig |-> NILREC ]

NoMergeOut == [ called |-> FALSE, merged |-> NILREC, err |-> ErrNil ]

\* a WorkerdOptions value
WorkerdOptions(name, displayName, description, concurrency, logger, configPath, serviceFlag) ==
    [ Name |-> name, DisplayName |-> displayName, Description |-> description,
      Concurrency |-> concurrency, Logger |-> logger, ConfigPath |-> configPath,
      ServiceFlag |-> serviceFlag ]

\* the field of a WorkerdOptions that getStringValue's first switch reads
optionsString(o, field) ==
    CASE field = "name" -> o.Name
      [] field = "displayName" -> o.DisplayName
      [] field = "description" -> o.Description
      [] field = "configPath" -> o.ConfigPath
      [] field = "serviceFlag" -> o.ServiceFlag
      [] OTHER -> ""

\* the field of a workerConfig that getStringValue's second and third switch read
configString(config, field) ==
    CASE field = "name" -> config.Name
      [] field = "displayName" -> config.DisplayName
      [] field = "description" -> config.Description
      [] OTHER -> ""

\* The mutant of getStringValue that lets the file config win over the options.
getStringValueFileFirst(c, h, field) ==
    IF c.fileConfig # NIL /\ configString(h[c.fileConfig], field) # ""
    THEN configString(h[c.fileConfig], field)
    ELSE IF c.optionsConfig # NILREC /\ optionsString(c.optionsConfig, field) # ""
    THEN optionsString(c.optionsConfig, field)
    ELSE IF c.defaultConfig # NIL
    THEN configString(h[c.defaultConfig], field)
    ELSE ""

\* ConfigMerger.getStringValue, for the merger c over the heap h
getStringValue(c, h, field) ==
    IF c.optionsConfig # NILREC /\ optionsString(c.optionsConfig, field) # ""
    THEN optionsString(c.optionsConfig, field)
    ELSE IF c.fileConfig # NIL /\ configString(h[c.fileConfig], field) # ""
    THEN configString(h[c.fileConfig], field)
    ELSE IF c.defaultConfig # NIL
    THEN configString(h[c.defaultConfig], field)
    ELSE ""

\* The mutant of getIntValue that tests the file value with != 0 instead of > 0.
getIntValueNonZero(c, h, field) ==
    IF field # "concurrency" THEN 0
    ELSE IF c.optionsConfig # NILREC /\ c.optionsConfig.Concurrency > 0
    THEN c.optionsConfig.Concurrency
    ELSE IF c.fileConfig # NIL /\ h[c.fileConfig].Concurrency # 0
    THEN h[c.fileConfig].Concurrency
    ELSE IF c.defaultConfig # NIL
    THEN h[c.defaultConfig].Concurrency
    ELSE 0

\* ConfigMerger.getIntValue
getIntValue(c, h, field) ==
    IF field # "concurrency" THEN 0
    ELSE IF c.optionsConfig # NILREC /\ c.optionsConfig.Concurrency > 0
    THEN c.optionsConfig.Concurrency
    ELSE IF c.fileConfig # NIL /\ h[c.fileConfig].Concurrency > 0
    THEN h[c.fileConfig].Concurrency
    ELSE IF c.defaultConfig # NIL
    THEN h[c.defaultConfig].Concurrency
    ELSE 0

\* ConfigMerger.getLoggerValue
getLoggerValue(c) ==
    IF c.optionsConfig # NILREC /\ c.optionsConfig.Logger # NIL
    THEN c.optionsConfig.Logger
    ELSE NIL

\* The mutant of Merge's result that merges without asking for defaults.
MergeOfNoDefaultsCheck(c, h) ==
    [ called |-> TRUE,
      merged |->
        [ Name |-> getStringValue(c, h, "name"),
          DisplayName |-> getStringValue(c, h, "displayName"),
          Description |-> getStringValue(c, h, "description"),
          Concurrency |-> getIntValue(c, h, "concurrency"),
          ConfigPath |-> getStringValue(c, h, "configPath"),
          ServiceFlag |-> getStringValue(c, h, "serviceFlag"),
          Logger |-> getLoggerValue(c),
          Config |-> IF c.fileConfig = NIL THEN c.defaultConfig ELSE c.fileConfig ],
      err |-> ErrNil ]

\* What ConfigMerger.Merge returns for the merger c over the heap h:
\* (merged, err).  merged.Config is the pointer taken from the merger.
MergeOf(c, h) ==
    IF c.defaultConfig = NIL
    THEN [ called |-> TRUE, merged |-> NILREC,
           err |-> Errorf("default configuration is required") ]
    ELSE [ called |-> TRUE,
           merged |->
             [ Name |-> getStringValue(c, h, "name"),
               DisplayName |-> getStringValue(c, h, "displayName"),
               Description |-> getStringValue(c, h, "description"),
               Concurrency |-> getIntValue(c, h, "concurrency"),
               ConfigPath |-> getStringValue(c, h, "configPath"),
               ServiceFlag |-> getStringValue(c, h, "serviceFlag"),
               Logger |-> getLoggerValue(c),
               Config |-> IF c.fileConfig = NIL THEN c.defaultConfig ELSE c.fileConfig ],
           err |-> ErrNil ]

\* The inputs of the merger.  The defaults object and the file object carry
\* different values, so that the source of a merged value can be told.
AsynqSamples ==
    { ValidAsynq, NILREC,
      [ ValidAsynq EXCEPT !.PoolSize = 0 ],
      [ ValidAsynq EXCEPT !.Addr = "", !.PoolSize = 0, !.DialTimeout = 0 ],
      [ ValidAsynq EXCEPT !.Addr = "redis.internal:6380", !.PoolSize = 20 ] }

DefaultsObjects ==
    { WorkerConfig(ValidAsynq, n, d[1], d[2], k) :
        n \in { "", "workerd" },
        d \in { << "", "" >>, << "Workerd Service", "Background worker service" >> },
        k \in ConcValues }
    \cup { WorkerConfig(a, "workerd", "Workerd Service", "Background worker service", 1) :
             a \in AsynqSamples }

FileObjects ==
    { WorkerConfig(ValidAsynq, n, d[1], d[2], k) :
        n \in { "", "file-worker" },
        d \in { << "", "" >>, << "File Worker", "worker named by the file" >> },
        k \in ConcValues }
    \cup { WorkerConfig(a, "", "", "", 0) : a \in AsynqSamples }

OptionsValues ==
    { WorkerdOptions(n, d, ds, k, x[1], x[2], x[3]) :
        n \in { "", "opt-worker" },
        d \in { "", "Option Worker" },
        ds \in { "", "worker named by the options" },
        k \in ConcValues,
        x \in { << NIL, "", "" >>, << "logger", "conf.yml", "run" >> } }

\* NewConfigMerger
NewConfigMerger ==
    /\ cm' = EmptyMerger
    /\ mergePc' = "building"
    /\ mergeOut' = NoMergeOut
    /\ UNCHANGED << heap, validateVars, serverVars, newServerCalls, workerdVars, serviceVars, flagVars >>

\* ConfigMerger.WithDefaults
WithDefaults(config) ==
    /\ mergePc = "building"
    /\ cm' = [ cm EXCEPT !.defaultConfig = config ]
    /\ UNCHANGED << heap, mergePc, mergeOut, validateVars, serverVars,
                    newServerCalls, workerdVars, serviceVars, flagVars >>

\* ConfigMerger.WithFileConfig
WithFileConfig(config) ==
    /\ mergePc = "building"
    /\ cm' = [ cm EXCEPT !.fileConfig = config ]
    /\ UNCHANGED << heap, mergePc, mergeOut, validateVars, serverVars,
                    newServerCalls, workerdVars, serviceVars, flagVars >>

\* ConfigMerger.WithOptions
WithOptions(options) ==
    /\ mergePc = "building"
    /\ cm' = [ cm EXCEPT !.optionsConfig = options ]
    /\ UNCHANGED << heap, mergePc, mergeOut, validateVars, serverVars,
                    newServerCalls, workerdVars, serviceVars, flagVars >>

\* ConfigMerger.Merge
Merge ==
    /\ mergePc = "building"
    /\ mergeOut' = MergeOf(cm, heap)
    /\ mergePc' = "merged"
    /\ UNCHANGED << heap, cm, validateVars, serverVars, newServerCalls, workerdVars, serviceVars, flagVars >>

\* The state of the other components while the merger is checked.
IdleValidate == validateIn = NILREC /\ validateOut = NILREC
IdleServer == sb = NILREC /\ buildOut = NILREC /\ newServerCalls = << >>
IdleWorkerd == env = NILREC /\ opts = << >> /\ w = NILREC /\ exited = FALSE
IdleService ==
    /\ sm = NILREC /\ callPc = "idle" /\ ctlOut = NILREC /\ nCalls = 0
    /\ facilityCalls = << >>
    /\ lifecycle = "Stopped" /\ srvState = "new" /\ hookLog = << >>
    /\ chans = << >> /\ sent = << >> /\ logged = << >>
IdleFlags == argv = NILREC /\ flags = NILREC
IdleMerge ==
    /\ heap = [ p \in Ptrs |-> NILREC ]
    /\ cm = EmptyMerger
    /\ mergePc = "building"
    /\ mergeOut = NoMergeOut

InitMerge ==
    /\ heap \in { [ p \in Ptrs |-> IF p = "pD" THEN d ELSE f ] :
                    d \in DefaultsObjects, f \in FileObjects }
    /\ cm = EmptyMerger
    /\ mergePc = "building"
    /\ mergeOut = NoMergeOut
    /\ IdleValidate /\ IdleServer /\ IdleWorkerd /\ IdleService /\ IdleFlags

NextMerge ==
    \/ NewConfigMerger
    \/ \E config \in { NIL, "pD" } : WithDefaults(config)
    \/ \E config \in { NIL, "pF" } : WithFileConfig(config)
    \/ \E options \in OptionsValues \cup { NILREC } : WithOptions(options)
    \/ Merge

SpecMerge == InitMerge /\ [][NextMerge]_vars

\* ConfigMerger.Merge called again on a merger that has merged already
MergeAgain ==
    /\ mergePc \in { "merged", "changed" }
    /\ mergeOut' = MergeOf(cm, heap)
    /\ mergePc' = "merged"
    /\ UNCHANGED << heap, cm, validateVars, serverVars, newServerCalls, workerdVars,
                    serviceVars, flagVars >>

\* the address the caller moves a connection block to
MovedAddr == "moved.internal:6379"

\* WithDefaults and WithFileConfig keep the caller's pointer, so the object
\* stays the caller's: after Merge has returned, the caller changes the
\* address in the object behind p.
CallerWrites(p) ==
    /\ mergePc = "merged"
    /\ heap[p].AsynqConfig # NILREC
    /\ heap[p].AsynqConfig.Addr # MovedAddr
    /\ heap' = [ heap EXCEPT ![p].AsynqConfig.Addr = MovedAddr ]
    /\ mergePc' = "changed"
    /\ UNCHANGED << cm, mergeOut, validateVars, serverVars, newServerCalls, workerdVars,
                    serviceVars, flagVars >>

\* the caller's objects when it goes on to change them: a full defaults
\* object, and a file object that sets its name or its concurrency or neither
InitMergeShared ==
    /\ InitMerge
    /\ heap["pD"] = WorkerConfig(ValidAsynq, "workerd", "Workerd Service",
                                 "Background worker service", 1)
    /\ heap["pF"].AsynqConfig = ValidAsynq
    /\ heap["pF"].DisplayName = ""
    /\ heap["pF"].Concurrency \in { 0, MaxConc }

NextMergeShared ==
    \/ NextMerge
    \/ MergeAgain
    \/ \E p \in Ptrs : CallerWrites(p)

SpecMergeShared == InitMergeShared /\ [][NextMergeShared]_vars

\* ------------------------------------------------------------- validation

\* The connection configs handed to validate: every combination of the
\* field values around each rule's threshold.
NetworkValues == { "", "tcp", "unix", "udp" }

AsynqInputs ==
    { [ Network |-> n, Addr |-> ad, Username |-> "", Password |-> "", DB |-> db,
        DialTimeout |-> dt, ReadTimeout |-> rt, WriteTimeout |-> wt,
        PoolSize |-> ps ] :
        n \in NetworkValues, ad \in { "", DefaultAddr }, db \in -1 .. MaxDB,
        dt \in -1 .. MaxTimeout, rt \in -1 .. MaxTimeout, wt \in -1 .. MaxTimeout,
        ps \in -1 .. MaxPool }

\* a.validate() on the AsynqConfig of the config under validation
Validate ==
    /\ validateIn # NILREC
    /\ validateIn.AsynqConfig # NILREC
    /\ validateOut' = [ op |-> "validate", err |-> validate(validateIn.AsynqConfig) ]
    /\ UNCHANGED << validateIn, mergeVars, serverVars, newServerCalls, workerdVars, serviceVars, flagVars >>

\* validateWorkerConfig(config) on the config under validation
ValidateWorkerConfig ==
    /\ validateOut' = [ op |-> "validateWorkerConfig",
                        err |-> validateWorkerConfig(validateIn) ]
    /\ UNCHANGED << validateIn, mergeVars, serverVars, newServerCalls, workerdVars, serviceVars, flagVars >>

InitValidate ==
    /\ validateIn \in
         { WorkerConfig(a, "workerd", "Workerd Service", "Background worker service", k) :
             a \in AsynqInputs \cup { NILREC }, k \in { -1, 0, MaxConc } }
         \cup { NILREC }
    /\ validateOut = NILREC
    /\ IdleMerge /\ IdleServer /\ IdleWorkerd /\ IdleService /\ IdleFlags

NextValidate ==
    \/ Validate
    \/ ValidateWorkerConfig

SpecValidate == InitValidate /\ [][NextValidate]_vars

\* ----------------------------------------------------------- ServerBuilder

\* The handle asynq.NewServer returns for its two arguments.
NewServer(redisOpt, serverConfig) ==
    [ redis |-> redisOpt, concurrency |-> serverConfig.Concurrency ]

\* The mutant of BuildServer that rejects only a negative concurrency.
BuildServerOfNegativeOnly(config, concurrency) ==
    IF concurrency < 0
    THEN [ server |-> NILREC, err |-> Errorf("concurrency must be positive"),
           calls |-> << >> ]
    ELSE IF GetRedisClientOpt(config.AsynqConfig).err # ErrNil
    THEN [ server |-> NILREC,
           err |-> Wrap("failed to get Redis client options",
                        GetRedisClientOpt(config.AsynqConfig).err),
           calls |-> << >> ]
    ELSE [ server |-> NewServer(GetRedisClientOpt(config.AsynqConfig).opt,
                                [ Concurrency |-> concurrency ]),
           err |-> ErrNil,
           calls |-> << [ opt |-> GetRedisClientOpt(config.AsynqConfig).opt,
                          concurrency |-> concurrency ] >> ]

\* What ServerBuilder.BuildServer returns for a builder over config, and the
\* asynq.NewServer calls it makes: (server, err, calls).  asynq.NewServer
\* returns a handle, so the nil check after it never fires.
BuildServerOf(config, concurrency) ==
    IF concurrency <= 0
    THEN [ server |-> NILREC, err |-> Errorf("concurrency must be positive"),
           calls |-> << >> ]
    ELSE IF GetRedisClientOpt(config.AsynqConfig).err # ErrNil
    THEN [ server |-> NILREC,
           err |-> Wrap("failed to get Redis client options",
                        GetRedisClientOpt(config.AsynqConfig).err),
           calls |-> << >> ]
    ELSE [ server |-> NewServer(GetRedisClientOpt(config.AsynqConfig).opt,
                                [ Concurrency |-> concurrency ]),
           err |-> ErrNil,
           calls |-> << [ opt |-> GetRedisClientOpt(config.AsynqConfig).opt,
                          concurrency |-> concurrency ] >> ]

\* the fallback concurrency of BuildServerWithDefaults
FallbackConcurrency == 10

\* defaultConcurrency with the test "Concurrency >= 0": zero is passed on
defaultConcurrencyZeroKept(config) ==
    IF config.Concurrency >= 0 THEN config.Concurrency ELSE FallbackConcurrency

\* the concurrency BuildServerWithDefaults passes to BuildServer
defaultConcurrency(config) ==
    IF config.Concurrency > 0 THEN config.Concurrency ELSE FallbackConcurrency

\* ServerBuilder.ValidateServerConfig
ValidateServerConfigOf(config, concurrency) ==
    IF concurrency <= 0 THEN Errorf("concurrency must be positive")
    ELSE IF config.AsynqConfig = NILREC THEN Errorf("asynq configuration is required")
    ELSE IF validate(config.AsynqConfig) # ErrNil
    THEN Wrap("invalid asynq configuration", validate(config.AsynqConfig))
    ELSE ErrNil

\* The workerConfig values a ServerBuilder is given: a valid connection
\* config, a nil one, and one breaking each validation rule.
ServerAsynq ==
    { ValidAsynq, NILREC,
      [ ValidAsynq EXCEPT !.Addr = "" ],
      [ ValidAsynq EXCEPT !.Network = "" ],
      [ ValidAsynq EXCEPT !.Network = "udp" ],
      [ ValidAsynq EXCEPT !.DB = -1 ],
      [ ValidAsynq EXCEPT !.PoolSize = 0 ],
      [ ValidAsynq EXCEPT !.DialTimeout = 0 ],
      [ ValidAsynq EXCEPT !.ReadTimeout = -1 ],
      [ ValidAsynq EXCEPT !.WriteTimeout = 0 ] }

ServerConfigs ==
    { WorkerConfig(a, "workerd", "Workerd Service", "Background worker service", k) :
        a \in ServerAsynq, k \in ConcValues }

\* NewServerBuilder
NewServerBuilder(config) ==
    /\ sb' = IF config = NILREC THEN NILREC ELSE [ config |-> config ]
    /\ buildOut' = [ op |-> "NewServerBuilder", concurrency |-> 0, server |-> NILREC,
                     err |-> IF config = NILREC THEN Errorf("config cannot be nil")
                             ELSE ErrNil ]
    /\ UNCHANGED << newServerCalls, mergeVars, validateVars, workerdVars, serviceVars, flagVars >>

\* ServerBuilder.BuildServer
BuildServer(concurrency) ==
    /\ sb # NILREC
    /\ Len(newServerCalls) < MaxCalls
    /\ buildOut' = [ op |-> "BuildServer", concurrency |-> concurrency,
                     server |-> BuildServerOf(sb.config, concurrency).server,
                     err |-> BuildServerOf(sb.config, concurrency).err ]
    /\ newServerCalls' = newServerCalls \o BuildServerOf(sb.config, concurrency).calls
    /\ UNCHANGED << sb, mergeVars, validateVars, workerdVars, serviceVars, flagVars >>

\* ServerBuilder.BuildServerWithDefaults
BuildServerWithDefaults ==
    /\ sb # NILREC
    /\ Len(newServerCalls) < MaxCalls
    /\ buildOut' = [ op |-> "BuildServerWithDefaults",
                     concurrency |-> defaultConcurrency(sb.config),
                     server |-> BuildServerOf(sb.config, defaultConcurrency(sb.config)).server,
                     err |-> BuildServerOf(sb.config, defaultConcurrency(sb.config)).err ]
    /\ newServerCalls' =
         newServerCalls \o BuildServerOf(sb.config, defaultConcurrency(sb.config)).calls
    /\ UNCHANGED << sb, mergeVars, validateVars, workerdVars, serviceVars, flagVars >>

\* ServerBuilder.ValidateServerConfig
ValidateServerConfig(concurrency) ==
    /\ sb # NILREC
    /\ buildOut' = [ op |-> "ValidateServerConfig", concurrency |-> concurrency,
                     server |-> NILREC,
                     err |-> ValidateServerConfigOf(sb.config, concurrency) ]
    /\ UNCHANGED << sb, newServerCalls, mergeVars, validateVars, workerdVars, serviceVars, flagVars >>

InitServer ==
    /\ sb = NILREC
    /\ buildOut = NILREC
    /\ newServerCalls = << >>
    /\ IdleMerge /\ IdleValidate /\ IdleWorkerd /\ IdleService /\ IdleFlags

NextServer ==
    \/ \E config \in ServerConfigs \cup { NILREC } : NewServerBuilder(config)
    \/ \E concurrency \in ConcValues : BuildServer(concurrency)
    \/ BuildServerWithDefaults
    \/ \E concurrency \in ConcValues : ValidateServerConfig(concurrency)

SpecServer == InitServer /\ [][NextServer]_vars

\* ----------------------------------------------- Workerd (workerd.go)

\* the concurrency NewWorkerd pre-fills
PrefilledConcurrency == 10

\* the concurrency of the README's sample configuration file
SampleFileConcurrency == 15

\* &Workerd{name: ..., displayName: ..., description: ..., concurrency: 10}
PrefilledWorkerd ==
    [ ServeMux |-> NIL, serviceFlag |-> "", srv |-> NILREC, config |-> NILREC,
      log |-> NIL, configPath |-> "", name |-> "workerd",
      displayName |-> "Workerd Service", description |-> "Background worker service",
      concurrency |-> PrefilledConcurrency, logger |-> NIL ]

\* an Option: the closure a With... function returns, by constructor and argument
Option(kind, val) == [ kind |-> kind, val |-> val ]

\* opt(w) for one Option
ApplyOption(wd, opt) ==
    CASE opt.kind = "WithLogger" -> [ wd EXCEPT !.log = opt.val ]
      [] opt.kind = "WithServeMux" -> [ wd EXCEPT !.ServeMux = opt.val ]
      [] opt.kind = "WithName" -> [ wd EXCEPT !.name = opt.val ]
      [] opt.kind = "WithDisplayName" -> [ wd EXCEPT !.displayName = opt.val ]
      [] opt.kind = "WithDescription" -> [ wd EXCEPT !.description = opt.val ]
      [] opt.kind = "WithConcurrency" -> [ wd EXCEPT !.concurrency = opt.val ]
      [] opt.kind = "WithConfigPath" -> [ wd EXCEPT !.configPath = opt.val ]
      [] opt.kind = "WithServiceFlag" -> [ wd EXCEPT !.serviceFlag = opt.val ]

\* for _, opt := range opts { opt(w) }
RECURSIVE ApplyOptions(_, _)
ApplyOptions(wd, os) ==
    IF os = << >> THEN wd ELSE ApplyOptions(ApplyOption(wd, Head(os)), Tail(os))

\* What configor leaves in a field that the file and the environment left at
\* its zero value: the `default` struct tag.
OrDefault(v, zero, def) == IF v = zero THEN def ELSE v

\* configor's Load into &workerConfig{AsynqConfig: new(AsynqConfig)}: the
\* values of the file and the environment, then the struct-tag defaults.
Load(raw) ==
    [ AsynqConfig |->
        [ Network |-> OrDefault(raw.AsynqConfig.Network, "", DefaultNetwork),
          Addr |-> OrDefault(raw.AsynqConfig.Addr, "", DefaultAddr),
          Username |-> raw.AsynqConfig.Username,
          Password |-> raw.AsynqConfig.Password,
          DB |-> OrDefault(raw.AsynqConfig.DB, 0, DefaultDB),
          DialTimeout |-> OrDefault(raw.AsynqConfig.DialTimeout, 0, DefaultDialTimeout),
          ReadTimeout |-> OrDefault(raw.AsynqConfig.ReadTimeout, 0, DefaultReadTimeout),
          WriteTimeout |-> OrDefault(raw.AsynqConfig.WriteTimeout, 0, DefaultWriteTimeout),
          PoolSize |-> OrDefault(raw.AsynqConfig.PoolSize, 0, DefaultPoolSize) ],
      LogLevel |-> "DEBUG",
      Name |-> OrDefault(raw.Name, "", DefaultConfigName),
      DisplayName |-> OrDefault(raw.DisplayName, "", DefaultConfigDisplayName),
      Description |-> OrDefault(raw.Description, "", DefaultConfigDescription),
      Concurrency |-> OrDefault(raw.Concurrency, 0, DefaultConfigConcurrency) ]

\* newWorkerConfig of the loader workerd.go compiles against: (config, err),
\* with no validation of what was loaded.
newWorkerConfig(e) ==
    IF e.loadErr
    THEN [ config |-> NILREC, err |-> Errorf("configor: load failed") ]
    ELSE [ config |-> Load(e.raw), err |-> ErrNil ]

\* AsynqConfig.GetRedisClientOpt of that loader: the fields, unvalidated
GetRedisClientOptUnchecked(a) == RedisClientOpt(a)

\* "Apply config values if not set via options" and the later fill-ins
ApplyConfig(wd, config) ==
    [ wd EXCEPT
        !.config = config,
        !.name = IF wd.name = "" /\ config.Name # "" THEN config.Name ELSE wd.name,
        !.displayName = IF wd.displayName = "" /\ config.DisplayName # ""
                        THEN config.DisplayName ELSE wd.displayName,
        !.description = IF wd.description = "" /\ config.Description # ""
                        THEN config.Description ELSE wd.description,
        !.concurrency = IF wd.concurrency <= 0 /\ config.Concurrency > 0
                        THEN config.Concurrency ELSE wd.concurrency,
        !.log = IF wd.log = NIL THEN "newLogger" ELSE wd.log,
        !.ServeMux = IF wd.ServeMux = NIL THEN "NewServeMux" ELSE wd.ServeMux ]

\* The Workerd NewWorkerd returns for the options os and the loaded config.
NewWorkerdOf(os, config) ==
    [ ApplyConfig(ApplyOptions(PrefilledWorkerd, os), config) EXCEPT
        !.srv = NewServer(GetRedisClientOptUnchecked(config.AsynqConfig),
                          [ Concurrency |->
                              ApplyConfig(ApplyOptions(PrefilledWorkerd, os),
                                          config).concurrency ]) ]

\* the options a caller may pass
OptionValues ==
    { Option("WithName", n) : n \in { "", "my-worker" } }
    \cup { Option("WithDisplayName", "My Worker"),
           Option("WithDescription", "my description"),
           Option("WithConfigPath", "conf.yml"),
           Option("WithLogger", "logger"),
           Option("WithServeMux", "mux") }
    \cup { Option("WithConcurrency", n) : n \in ConcValues }
    \cup { Option("WithServiceFlag", f) : f \in { "run", "install", "bogus" } }

OptionLists ==
    UNION { [ 1 .. n -> OptionValues ] : n \in 0 .. MaxOpts }

\* what the file and the environment hold, before the defaults
UnsetAsynq ==
    [ Network |-> "", Addr |-> "", Username |-> "", Password |-> "", DB |-> 0,
      DialTimeout |-> 0, ReadTimeout |-> 0, WriteTimeout |-> 0, PoolSize |-> 0 ]

\* one field of the connection block set by the file or the environment
RawAsynq ==
    { [ UnsetAsynq EXCEPT !.Network = "unix" ],
      [ UnsetAsynq EXCEPT !.Addr = "redis.internal:6380" ] }
    \cup { [ UnsetAsynq EXCEPT !.DB = n ] : n \in -1 .. MaxDB }
    \cup { [ UnsetAsynq EXCEPT !.PoolSize = n ] : n \in -1 .. MaxPool }
    \cup { [ UnsetAsynq EXCEPT !.DialTimeout = n ] : n \in -1 .. MaxTimeout }
    \cup { [ UnsetAsynq EXCEPT !.ReadTimeout = n ] : n \in -1 .. MaxTimeout }
    \cup { [ UnsetAsynq EXCEPT !.WriteTimeout = n ] : n \in -1 .. MaxTimeout }

RawConfigs ==
    { WorkerConfig(UnsetAsynq, n, d[1], d[2], k) :
        n \in { "", "file-worker" },
        d \in { << "", "" >>, << "File Worker", "worker named by the file" >> },
        k \in ConcValues \cup { SampleFileConcurrency } }
    \cup { WorkerConfig(a, "", "", "", 0) : a \in RawAsynq }

EnvValues ==
    { [ loadErr |-> FALSE, raw |-> r ] : r \in RawConfigs }
    \cup { [ loadErr |-> TRUE, raw |-> WorkerConfig(UnsetAsynq, "", "", "", 0) ] }

\* NewWorkerd(os...), in the environment e
NewWorkerdWith(os, e) ==
    /\ opts' = os
    /\ env' = e
    /\ IF newWorkerConfig(e).err # ErrNil
       THEN /\ exited' = TRUE
            /\ UNCHANGED << w, newServerCalls >>
       ELSE /\ w' = NewWorkerdOf(os, newWorkerConfig(e).config)
            /\ newServerCalls' =
                 Append(newServerCalls,
                        [ opt |-> NewWorkerdOf(os, newWorkerConfig(e).config).srv.redis,
                          concurrency |->
                            NewWorkerdOf(os, newWorkerConfig(e).config).srv.concurrency ])
            /\ UNCHANGED exited
    /\ UNCHANGED << mergeVars, validateVars, serverVars, serviceVars >>

Init ==
    /\ env = NILREC /\ opts = << >> /\ w = NILREC /\ exited = FALSE
    /\ IdleMerge /\ IdleValidate /\ IdleServer /\ IdleService /\ IdleFlags

\* NewWorkerd: the one construction of the process's Workerd
NewWorkerd ==
    /\ w = NILREC
    /\ ~exited
    /\ \E os \in OptionLists, e \in EnvValues : NewWorkerdWith(os, e)
    /\ UNCHANGED flagVars

Next ==
    \/ NewWorkerd

Spec == Init /\ [][Next]_vars

\* ------------------------------------- service control (workerd.go, ServiceManager)

\* the buffer of the error channel: make(chan error, 5)
ErrChanCap == 5

\* Workerd.Run / HandleControl calls and error channels in one process
MaxRuns == 2

\* values the service facility puts on the error channels of one process
MaxErrs == 2

\* service.ControlAction, the actions service.Control carries out
ControlAction == { "start", "stop", "restart", "install", "uninstall" }

\* the actions a caller may ask for
Actions == ControlAction \cup { "run", "bogus", "" }

\* what service.Control(s, action) may return
ControlOutcomes(action) ==
    IF action \in ControlAction
    THEN { ErrNil, Errorf("service facility failure") }
    ELSE { Errorf("Unknown action") }

\* what service.New and s.Logger may do to newService / NewServiceManager
NewServiceOutcomes == { "ok", "new_failed", "logger_failed" }

\* what asynq's Server.Start may return
SrvStartOutcomes == { ErrNil, Errorf("asynq: server start failed") }

\* one call of the service facility
FacilityCall(prim, action) == [ prim |-> prim, action |-> action ]

\* Workerd.newService: its error, and whether it started a drain goroutine
\* on a new error channel
newService(outcome) ==
    CASE outcome = "new_failed" ->
            [ err |-> Wrap("failed to create service", Errorf("service.New failed")),
              spawned |-> FALSE ]
      [] outcome = "logger_failed" ->
            [ err |-> Wrap("failed to create service logger", Errorf("Logger failed")),
              spawned |-> FALSE ]
      [] outcome = "ok" -> [ err |-> ErrNil, spawned |-> TRUE ]

\* HandleServiceControlOf that calls service.Control again after a failure
HandleServiceControlOfRetry(action, facilityErr) ==
    IF action = "run"
    THEN [ calls |-> << FacilityCall("Run", action) >>,
           err |-> IF facilityErr # ErrNil
                   THEN Wrap("failed to run service", facilityErr) ELSE ErrNil ]
    ELSE [ calls |-> IF facilityErr # ErrNil
                     THEN << FacilityCall("Control", action), FacilityCall("Control", action) >>
                     ELSE << FacilityCall("Control", action) >>,
           err |-> IF facilityErr # ErrNil
                   THEN Wrap("service control action failed", facilityErr) ELSE ErrNil ]

\* HandleServiceControlOf that returns nil when the facility's Run failed
HandleServiceControlOfRunSwallowed(action, facilityErr) ==
    IF action = "run"
    THEN [ calls |-> << FacilityCall("Run", action) >>, err |-> ErrNil ]
    ELSE [ calls |-> << FacilityCall("Control", action) >>,
           err |-> IF facilityErr # ErrNil
                   THEN Wrap("service control action failed", facilityErr) ELSE ErrNil ]

\* Workerd.HandleServiceControl(s, action): the facility calls it makes and,
\* for what the facility returned, the error it returns
HandleServiceControlOf(action, facilityErr) ==
    IF action = "run"
    THEN [ calls |-> << FacilityCall("Run", action) >>,
           err |-> IF facilityErr # ErrNil
                   THEN Wrap("failed to run service", facilityErr) ELSE ErrNil ]
    ELSE [ calls |-> << FacilityCall("Control", action) >>,
           err |-> IF facilityErr # ErrNil
                   THEN Wrap("service control action failed", facilityErr) ELSE ErrNil ]

\* ServiceManager.HandleControl(action) on a manager whose service is `service`
HandleControlOf(service, action, facilityErr) ==
    CASE service = NIL ->
            [ calls |-> << >>, err |-> Errorf("service not initialized") ]
      [] service # NIL /\ action = "" ->
            [ calls |-> << >>, err |-> Errorf("action cannot be empty") ]
      [] service # NIL /\ action = "run" ->
            [ calls |-> << FacilityCall("Run", action) >>,
              err |-> IF facilityErr # ErrNil
                      THEN Wrap("failed to run service", facilityErr) ELSE ErrNil ]
      [] service # NIL /\ action \in { "install", "uninstall", "start", "stop", "restart" } ->
            [ calls |-> << FacilityCall("Control", action) >>,
              err |-> IF facilityErr # ErrNil
                      THEN Wrap("service control action failed", facilityErr) ELSE ErrNil ]
      [] OTHER ->
            [ calls |-> << >>, err |-> Errorf("unknown service action") ]

\* NewServiceManager(w): the manager, its error, and whether it started a
\* drain goroutine on a new error channel
NewServiceManagerOf(wd, outcome) ==
    CASE wd = NILREC ->
            [ sm |-> NILREC, err |-> Errorf("workerd cannot be nil"), spawned |-> FALSE ]
      [] wd # NILREC /\ outcome = "new_failed" ->
            [ sm |-> NILREC,
              err |-> Wrap("failed to create service",
                           Wrap("failed to create service", Errorf("service.New failed"))),
              spawned |-> FALSE ]
      [] wd # NILREC /\ outcome = "logger_failed" ->
            [ sm |-> NILREC,
              err |-> Wrap("failed to create service logger",
                           Wrap("failed to create service logger", Errorf("Logger failed"))),
              spawned |-> FALSE ]
      [] wd # NILREC /\ outcome = "ok" ->
            [ sm |-> [ service |-> "service", logger |-> "logger" ],
              err |-> ErrNil, spawned |-> TRUE ]

\* Workerd.Start with the error of a failed server start dropped
StartOfSwallowed(srvErr) == ErrNil

\* Workerd.Start: what the hook returns for what w.srv.Start returned
StartOf(srvErr) == srvErr

\* Workerd.Stop: what the hook returns
StopOf == ErrNil

\* what a dispatcher's call that has returned leaves in ctlOut
Returned(via, action, stage, facilityErr, err) ==
    [ via |-> via, action |-> action, stage |-> stage, done |-> TRUE,
      facilityErr |-> facilityErr, err |-> err ]

\* a dispatcher's call that is inside the facility's Run
Running(via, action) ==
    [ via |-> via, action |-> action, stage |-> "dispatch", done |-> FALSE,
      facilityErr |-> ErrNil, err |-> ErrNil ]

\* the dispatcher's switch of the call `via`, for error mapping at return
DispatchOf(via, action, facilityErr) ==
    IF via = "Workerd.Run"
    THEN HandleServiceControlOf(action, facilityErr)
    ELSE HandleControlOf(sm.service, action, facilityErr)

\* A dispatcher's switch on `action`, given its facility calls and its error
\* `d`: service.Control returns within the call; s.Run() blocks, and the call
\* returns when the facility's Run does.
Dispatch(via, action, d, facilityErr) ==
    /\ facilityCalls' = facilityCalls \o d.calls
    /\ nCalls' = nCalls + 1
    /\ IF d.calls # << >> /\ d.calls[1].prim = "Run"
       THEN /\ callPc' = "run_called"
            /\ ctlOut' = Running(via, action)
       ELSE /\ callPc' = "idle"
            /\ ctlOut' = Returned(via, action, "dispatch", facilityErr, d.err)

\* Workerd.Run after newService: return its error, or go on to
\* HandleServiceControl(s, w.serviceFlag) with the new channel and goroutine
RunDispatch(outcome, facilityErr) ==
    IF newService(outcome).err # ErrNil
    THEN /\ ctlOut' = Returned("Workerd.Run", w.serviceFlag, "newService",
                               ErrNil, newService(outcome).err)
         /\ nCalls' = nCalls + 1
         /\ UNCHANGED << callPc, facilityCalls, drainVars >>
    ELSE /\ chans' = Append(chans, << >>)
         /\ sent' = Append(sent, << >>)
         /\ UNCHANGED logged
         /\ Dispatch("Workerd.Run", w.serviceFlag,
                     HandleServiceControlOf(w.serviceFlag, facilityErr), facilityErr)

\* the Workerd after newService: w.logger is assigned what s.Logger returned,
\* no other field is written
newServiceWorkerd(wd, outcome) ==
    CASE outcome = "new_failed" -> wd
      [] outcome = "logger_failed" -> [ wd EXCEPT !.logger = NIL ]
      [] outcome = "ok" -> [ wd EXCEPT !.logger = "serviceLogger" ]

\* Workerd.Run, for what service.New / s.Logger and service.Control answer
RunWith(outcome, facilityErr) ==
    /\ w' = newServiceWorkerd(w, outcome)
    /\ RunDispatch(outcome, facilityErr)

\* Workerd.Run, in a process that runs the Workerd without a ServiceManager
Run ==
    /\ w # NILREC
    /\ sm = NILREC
    /\ callPc = "idle"
    /\ nCalls < MaxRuns
    /\ \E outcome \in NewServiceOutcomes, facilityErr \in ControlOutcomes(w.serviceFlag) :
            RunWith(outcome, facilityErr)
    /\ UNCHANGED << sm, hookVars, mergeVars, validateVars, serverVars,
                    newServerCalls, env, opts, exited, flagVars >>

\* NewServiceManager(w), in a process that controls the service through the
\* ServiceManager and constructs one
NewServiceManager ==
    /\ w # NILREC
    /\ sm = NILREC
    /\ nCalls = 0
    /\ callPc = "idle"
    /\ \E outcome \in NewServiceOutcomes :
         /\ sm' = NewServiceManagerOf(w, outcome).sm
         /\ ctlOut' = Returned("NewServiceManager", "", "construct", ErrNil,
                               NewServiceManagerOf(w, outcome).err)
         /\ IF NewServiceManagerOf(w, outcome).spawned
            THEN /\ chans' = Append(chans, << >>)
                 /\ sent' = Append(sent, << >>)
            ELSE UNCHANGED << chans, sent >>
    /\ UNCHANGED << callPc, nCalls, facilityCalls, logged, hookVars, mergeVars,
                    validateVars, serverVars, newServerCalls, workerdVars, flagVars >>

\* ServiceManager.HandleControl(action)
HandleControl(action) ==
    /\ sm # NILREC
    /\ callPc = "idle"
    /\ nCalls < MaxRuns
    /\ \E facilityErr \in ControlOutcomes(action) :
         Dispatch("ServiceManager.HandleControl", action,
                  HandleControlOf(sm.service, action, facilityErr), facilityErr)
    /\ UNCHANGED << sm, hookVars, drainVars, mergeVars, validateVars, serverVars,
                    newServerCalls, workerdVars, flagVars >>

\* an entry of hookLog
HookEvent(ev, err) == [ ev |-> ev, err |-> err ]

\* The facility's Run invokes the Start hook: Workerd.Start is entered.
StartEnter ==
    /\ callPc = "run_called"
    /\ callPc' = "start_entered"
    /\ lifecycle' = "Starting"
    /\ hookLog' = Append(hookLog, HookEvent("Start.enter", ErrNil))
    /\ UNCHANGED << sm, ctlOut, nCalls, facilityCalls, srvState, drainVars, mergeVars,
                    validateVars, serverVars, newServerCalls, workerdVars, flagVars >>

\* Workerd.Start calls w.srv.Start(w.ServeMux) and returns. The facility's Run
\* returns a hook error to the dispatcher at once, and otherwise waits for
\* the stop request.
StartReturn(srvErr) ==
    /\ callPc = "start_entered"
    /\ srvState' = IF srvErr = ErrNil THEN "started" ELSE "start_failed"
    /\ lifecycle' = IF srvErr = ErrNil THEN "Running" ELSE "Failed"
    /\ hookLog' = hookLog \o << HookEvent("srv.Start", srvErr),
                                 HookEvent("Start.return", StartOf(srvErr)) >>
    /\ IF StartOf(srvErr) # ErrNil
       THEN /\ callPc' = "idle"
            /\ ctlOut' = Returned(ctlOut.via, ctlOut.action, "dispatch", StartOf(srvErr),
                                  DispatchOf(ctlOut.via, ctlOut.action, StartOf(srvErr)).err)
       ELSE /\ callPc' = "running"
            /\ UNCHANGED ctlOut
    /\ UNCHANGED << sm, nCalls, facilityCalls, drainVars, mergeVars,
                    validateVars, serverVars, newServerCalls, workerdVars, flagVars >>

\* The facility's Run gets the stop request and invokes the Stop hook:
\* Workerd.Stop is entered.
StopEnter ==
    /\ callPc = "running"
    /\ callPc' = "stop_entered"
    /\ lifecycle' = "Stopping"
    /\ hookLog' = Append(hookLog, HookEvent("Stop.enter", ErrNil))
    /\ UNCHANGED << sm, ctlOut, nCalls, facilityCalls, srvState, drainVars, mergeVars,
                    validateVars, serverVars, newServerCalls, workerdVars, flagVars >>

\* StopShutdown with w.srv.Shutdown() called twice
StopShutdownTwice ==
    /\ callPc = "stop_entered"
    /\ callPc' = "stop_shutdown"
    /\ srvState' = "shutdown"
    /\ hookLog' = hookLog \o << HookEvent("srv.Shutdown", ErrNil),
                                 HookEvent("srv.Shutdown", ErrNil) >>
    /\ UNCHANGED << sm, ctlOut, nCalls, facilityCalls, lifecycle, drainVars, mergeVars,
                    validateVars, serverVars, newServerCalls, workerdVars, flagVars >>

\* StopShutdown that also clears w.srv once Shutdown was called
StopShutdownServerDropped ==
    /\ callPc = "stop_entered"
    /\ callPc' = "stop_shutdown"
    /\ srvState' = "shutdown"
    /\ hookLog' = Append(hookLog, HookEvent("srv.Shutdown", ErrNil))
    /\ w' = [ w EXCEPT !.srv = NILREC ]
    /\ UNCHANGED << sm, ctlOut, nCalls, facilityCalls, lifecycle, drainVars, mergeVars,
                    validateVars, serverVars, newServerCalls, env, opts, exited, flagVars >>

\* Workerd.Stop calls w.srv.Shutdown()
StopShutdown ==
    /\ callPc = "stop_entered"
    /\ callPc' = "stop_shutdown"
    /\ srvState' = "shutdown"
    /\ hookLog' = Append(hookLog, HookEvent("srv.Shutdown", ErrNil))
    /\ UNCHANGED << sm, ctlOut, nCalls, facilityCalls, lifecycle, drainVars, mergeVars,
                    validateVars, serverVars, newServerCalls, workerdVars, flagVars >>

\* Workerd.Stop returns; the facility's Run returns the hook's error to the
\* dispatcher.
StopReturn ==
    /\ callPc = "stop_shutdown"
    /\ callPc' = "idle"
    /\ lifecycle' = "Stopped"
    /\ hookLog' = Append(hookLog, HookEvent("Stop.return", StopOf))
    /\ ctlOut' = Returned(ctlOut.via, ctlOut.action, "dispatch", StopOf,
                          DispatchOf(ctlOut.via, ctlOut.action, StopOf).err)
    /\ UNCHANGED << sm, nCalls, facilityCalls, srvState, drainVars, mergeVars,
                    validateVars, serverVars, newServerCalls, workerdVars, flagVars >>

\* a value on an error channel: the n-th value put on channel ch
ErrValue(ch, n, isNil) == [ ch |-> ch, n |-> n, isNil |-> isNil ]

\* how many values the facility has put on the channels
RECURSIVE SentCount(_)
SentCount(i) == IF i = 0 THEN 0 ELSE Len(sent[i]) + SentCount(i - 1)

\* The service facility puts a value on error channel ch; the send blocks
\* while the buffer is full.
FacilitySend(ch, isNil) ==
    /\ Len(chans[ch]) < ErrChanCap
    /\ SentCount(Len(sent)) < MaxErrs
    /\ chans' = [ chans EXCEPT ![ch] = Append(@, ErrValue(ch, Len(sent[ch]) + 1, isNil)) ]
    /\ sent' = [ sent EXCEPT ![ch] = Append(@, ErrValue(ch, Len(sent[ch]) + 1, isNil)) ]
    /\ UNCHANGED << logged, controlVars, hookVars, mergeVars, validateVars, serverVars,
                    newServerCalls, workerdVars, flagVars >>

\* logServiceErrors with the nil test inverted: errors are received and dropped
logServiceErrorsDropped(ch) ==
    /\ chans[ch] # << >>
    /\ chans' = [ chans EXCEPT ![ch] = Tail(@) ]
    /\ logged' = IF Head(chans[ch]).isNil THEN Append(logged, Head(chans[ch])) ELSE logged
    /\ UNCHANGED << sent, controlVars, hookVars, mergeVars, validateVars, serverVars,
                    newServerCalls, workerdVars, flagVars >>

\* One turn of the loop of the drain goroutine of channel ch
\* (logServiceErrors, startErrorLogging): receive a value, log it if not nil.
logServiceErrors(ch) ==
    /\ chans[ch] # << >>
    /\ chans' = [ chans EXCEPT ![ch] = Tail(@) ]
    /\ logged' = IF Head(chans[ch]).isNil THEN logged ELSE Append(logged, Head(chans[ch]))
    /\ UNCHANGED << sent, controlVars, hookVars, mergeVars, validateVars, serverVars,
                    newServerCalls, workerdVars, flagVars >>

\* the concurrency of the README's Basic Usage
ReadmeConcurrency == 20

\* the options of the README's Basic Usage
ReadmeOptions ==
    << Option("WithName", "my-worker"), Option("WithConcurrency", ReadmeConcurrency) >>

\* the options a Workerd of the service model is constructed with: none, the
\* README's, or a service flag
ServiceOptionLists ==
    { << >>, ReadmeOptions }
    \cup { << Option("WithServiceFlag", f) >> : f \in Actions \ { "" } }

\* the file and the environment set nothing
UnsetEnv == [ loadErr |-> FALSE, raw |-> WorkerConfig(UnsetAsynq, "", "", "", 0) ]

\* NewWorkerd has returned the process's Workerd.
InitService ==
    /\ opts \in ServiceOptionLists
    /\ env = UnsetEnv
    /\ w = NewWorkerdOf(opts, newWorkerConfig(env).config)
    /\ newServerCalls = << [ opt |-> w.srv.redis, concurrency |-> w.srv.concurrency ] >>
    /\ exited = FALSE
    /\ IdleMerge /\ IdleValidate /\ sb = NILREC /\ buildOut = NILREC
    /\ IdleService /\ IdleFlags

NextService ==
    \/ Run
    \/ NewServiceManager
    \/ \E action \in Actions : HandleControl(action)
    \/ StartEnter
    \/ \E srvErr \in SrvStartOutcomes : StartReturn(srvErr)
    \/ StopEnter
    \/ StopShutdown
    \/ StopReturn
    \/ \E ch \in 1 .. Len(chans), isNil \in BOOLEAN : FacilitySend(ch, isNil)
    \/ \E ch \in 1 .. Len(chans) : logServiceErrors(ch)

SpecService == InitService /\ [][NextService]_vars

\* The drain goroutine of channel ch, once the channel exists. A goroutine
\* that can receive is scheduled eventually.
Drain(ch) == ch <= Len(chans) /\ logServiceErrors(ch)

\* the Workerd was constructed with one of three service flags
InitServiceFair ==
    /\ InitService
    /\ w.serviceFlag \in { "run", "restart", "bogus" }

SpecServiceFair ==
    /\ InitServiceFair /\ [][NextService]_vars
    /\ \A ch \in 1 .. MaxRuns : WF_vars(Drain(ch))

\* ------------------------------------- command-line flags (workerd_flags.go)

\* the default of the -concurrency flag
FlagConcurrencyDefault == 1

\* the concurrency the README documents as the default
DocumentedConcurrency == 10

\* A flag of the command line is << >> when it was not given and << v >> when
\* it was given with the value v; flag.Parse leaves the default in the first case.
FlagOr(arg, def) == IF arg = << >> THEN def ELSE arg[1]

\* parseFlags, for the command line a
parseFlags(a) ==
    [ service |-> FlagOr(a.service, "run"),
      configPath |-> FlagOr(a.config, ""),
      name |-> FlagOr(a.name, ""),
      displayName |-> FlagOr(a.displayName, ""),
      description |-> FlagOr(a.description, ""),
      concurrency |-> FlagOr(a.concurrency, FlagConcurrencyDefault) ]

\* the one option a flag contributes, or none
OptionIf(cond, kind, val) == IF cond THEN << Option(kind, val) >> ELSE << >>

\* WorkerdWithFlags.buildOptions: c.opts, then an option per flag that is set
buildOptions(copts, fl) ==
    copts
    \o OptionIf(fl.configPath # "", "WithConfigPath", fl.configPath)
    \o OptionIf(fl.service # "", "WithServiceFlag", fl.service)
    \o OptionIf(fl.name # "", "WithName", fl.name)
    \o OptionIf(fl.displayName # "", "WithDisplayName", fl.displayName)
    \o OptionIf(fl.description # "", "WithDescription", fl.description)
    \o OptionIf(fl.concurrency > 0, "WithConcurrency", fl.concurrency)

\* the command lines a user may give
ArgvValues ==
    { [ service |-> sv, config |-> cf, name |-> nm, displayName |-> << >>,
        description |-> << >>, concurrency |-> cc ] :
        sv \in { << >>, << "install" >>, << "" >> },
        cf \in { << >>, << "conf.yml" >> },
        nm \in { << >>, << "my-worker" >> },
        cc \in { << >> } \cup { << n >> : n \in ConcValues } }

\* the options the program hands to NewWorkerdWithFlags
BaseOptions == { << >>, << Option("WithServeMux", "mux") >> }

\* what the file and the environment hold when the flag layer runs
FlagEnvValues ==
    { [ loadErr |-> FALSE, raw |-> WorkerConfig(UnsetAsynq, "", "", "", k) ] :
        k \in { 0, MaxConc, SampleFileConcurrency } }
    \cup { [ loadErr |-> TRUE, raw |-> WorkerConfig(UnsetAsynq, "", "", "", 0) ] }

InitFlags ==
    /\ IdleWorkerd /\ IdleFlags /\ IdleService
    /\ IdleMerge /\ IdleValidate /\ IdleServer

\* WorkerdWithFlags.Run, up to the Workerd: parseFlags, buildOptions, NewWorkerd
NewWorkerdFromFlags ==
    /\ argv = NILREC
    /\ ~exited
    /\ \E a \in ArgvValues, copts \in BaseOptions, e \in FlagEnvValues :
         /\ argv' = a
         /\ flags' = parseFlags(a)
         /\ NewWorkerdWith(buildOptions(copts, parseFlags(a)), e)

\* WorkerdWithFlags.Run, from there: the one workerd.Run() of the process
RunFromFlags ==
    /\ argv # NILREC
    /\ nCalls = 0
    /\ Run

NextFlags ==
    \/ NewWorkerdFromFlags
    \/ RunFromFlags
    \/ StartEnter
    \/ \E srvErr \in SrvStartOutcomes : StartReturn(srvErr)
    \/ StopEnter
    \/ StopShutdown
    \/ StopReturn

SpecFlags == InitFlags /\ [][NextFlags]_vars

\* ------------------------------------------------------------------ claims

\* the connection block behind a merger pointer, or NILREC
asynqAt(h, p) == IF p = NIL THEN NILREC ELSE h[p].AsynqConfig

\* Merge has returned a merged configuration and no error
MergeSucceeded == mergePc = "merged" /\ mergeOut.called /\ mergeOut.err = ErrNil

OptionsStringSet(field) ==
    cm.optionsConfig # NILREC /\ optionsString(cm.optionsConfig, field) # ""

FileStringSet(field) ==
    cm.fileConfig # NIL /\ configString(heap[cm.fileConfig], field) # ""

OptionsConcurrencySet == cm.optionsConfig # NILREC /\ cm.optionsConfig.Concurrency > 0

FileConcurrencySet == cm.fileConfig # NIL /\ heap[cm.fileConfig].Concurrency > 0

\* C1: whenever Merge succeeds and the options set name, display name,
\* description (non-empty) or concurrency (> 0), the merged value of that field
\* is the options' value, whatever the file config and the defaults hold.
C1_OptionsPrecedence ==
    MergeSucceeded =>
        /\ OptionsStringSet("name") => mergeOut.merged.Name = cm.optionsConfig.Name
        /\ OptionsStringSet("displayName") =>
               mergeOut.merged.DisplayName = cm.optionsConfig.DisplayName
        /\ OptionsStringSet("description") =>
               mergeOut.merged.Description = cm.optionsConfig.Description
        /\ OptionsConcurrencySet =>
               mergeOut.merged.Concurrency = cm.optionsConfig.Concurrency

\* C1 witness: a merge in which the options, the file config and the defaults
\* all set a different name and a different concurrency, and the options won.
C1_Witness ==
    /\ MergeSucceeded
    /\ OptionsStringSet("name") /\ FileStringSet("name")
    /\ heap[cm.defaultConfig].Name # ""
    /\ OptionsStringSet("displayName") /\ FileStringSet("displayName")
    /\ OptionsConcurrencySet /\ FileConcurrencySet
    /\ heap[cm.fileConfig].Concurrency # cm.optionsConfig.Concurrency
    /\ heap[cm.defaultConfig].Concurrency > cm.optionsConfig.Concurrency
    /\ mergeOut.merged.Name = "opt-worker"
    /\ mergeOut.merged.Concurrency = cm.optionsConfig.Concurrency

\* the options passed to NewWorkerd leave the concurrency unset
OptsConcurrencyUnset(os) ==
    \A i \in 1 .. Len(os) : os[i].kind = "WithConcurrency" => os[i].val <= 0

\* C2: when the options leave concurrency unset and the file or environment
\* sets a positive concurrency, the server NewWorkerd builds has that
\* concurrency.
C2_FileConcurrencyInNewWorkerd ==
    (w # NILREC /\ OptsConcurrencyUnset(opts) /\ env.raw.Concurrency > 0) =>
        /\ w.concurrency = env.raw.Concurrency
        /\ w.srv.concurrency = env.raw.Concurrency

\* C3: whenever Merge succeeds and both the options and the file config leave
\* a field unset (empty, non-positive, or the source is nil), the merged value
\* of that field is the defaults' value.
C3_DefaultsFallback ==
    MergeSucceeded =>
        /\ (~OptionsStringSet("name") /\ ~FileStringSet("name")) =>
               mergeOut.merged.Name = heap[cm.defaultConfig].Name
        /\ (~OptionsStringSet("displayName") /\ ~FileStringSet("displayName")) =>
               mergeOut.merged.DisplayName = heap[cm.defaultConfig].DisplayName
        /\ (~OptionsStringSet("description") /\ ~FileStringSet("description")) =>
               mergeOut.merged.Description = heap[cm.defaultConfig].Description
        /\ (~OptionsConcurrencySet /\ ~FileConcurrencySet) =>
               mergeOut.merged.Concurrency = heap[cm.defaultConfig].Concurrency

\* C3 witness: options and file config are both present, both carry a negative
\* concurrency and an empty name, and the merge returned the defaults' values.
C3_Witness ==
    /\ MergeSucceeded
    /\ cm.optionsConfig # NILREC /\ cm.fileConfig # NIL
    /\ cm.optionsConfig.Concurrency < 0 /\ heap[cm.fileConfig].Concurrency < 0
    /\ cm.optionsConfig.Name = "" /\ heap[cm.fileConfig].Name = ""
    /\ heap[cm.defaultConfig].Concurrency > 0
    /\ mergeOut.merged.Concurrency = heap[cm.defaultConfig].Concurrency
    /\ mergeOut.merged.Name = "workerd"

\* C4: a Merge on a merger without defaults returns the "default configuration
\* is required" error and no merged configuration, whatever the file config
\* and the options are.
C4_MissingDefaults ==
    (mergePc = "merged" /\ cm.defaultConfig = NIL) =>
        /\ mergeOut.err = Errorf("default configuration is required")
        /\ mergeOut.merged = NILREC

\* C4 witness: Merge failed on a merger that has a file config and options
\* with every field set, and no defaults.
C4_Witness ==
    /\ mergePc = "merged" /\ mergeOut.called
    /\ cm.defaultConfig = NIL
    /\ FileStringSet("name") /\ FileConcurrencySet
    /\ OptionsStringSet("name") /\ OptionsConcurrencySet
    /\ mergeOut.err # ErrNil

\* C5: whenever Merge succeeds, the merged configuration has a non-empty name,
\* a concurrency > 0 and a connection config that passes validate.
C5_MergedAlwaysValid ==
    MergeSucceeded =>
        /\ mergeOut.merged.Name # ""
        /\ mergeOut.merged.Concurrency > 0
        /\ asynqAt(heap, mergeOut.merged.Config) # NILREC
        /\ validate(asynqAt(heap, mergeOut.merged.Config)) = ErrNil

\* the address of a connection block, "" when there is none
connAddr(a) == IF a = NILREC THEN "" ELSE a.Addr

\* a numeric field of a connection block, 0 when there is none
connInt(a, f) == IF a = NILREC THEN 0 ELSE a[f]

\* C6: the merged connection block is resolved per field: its address, pool
\* size and timeouts are each the value of the highest source that sets them
\* (WorkerdOptions has no connection field, so: file config, then defaults).
C6_ConnectionFieldPrecedence ==
    MergeSucceeded =>
        LET fa == asynqAt(heap, cm.fileConfig)
            da == asynqAt(heap, cm.defaultConfig)
            ma == asynqAt(heap, mergeOut.merged.Config)
        IN /\ connAddr(ma) = IF connAddr(fa) # "" THEN connAddr(fa) ELSE connAddr(da)
           /\ \A f \in { "PoolSize", "DialTimeout", "ReadTimeout", "WriteTimeout" } :
                  connInt(ma, f) =
                      IF connInt(fa, f) > 0 THEN connInt(fa, f) ELSE connInt(da, f)

\* validate has been applied to the connection config under validation
Validated == validateOut # NILREC /\ validateOut.op = "validate"

\* every rule of validate but the one on field f holds of a
OnlyBroken(a, f) ==
    /\ (f = "Addr") <=> (a.Addr = "")
    /\ (f = "Network") <=> (a.Network = "")
    /\ (f = "DB") <=> (a.DB < 0)
    /\ (f = "PoolSize") <=> (a.PoolSize <= 0)
    /\ (f = "DialTimeout") <=> (a.DialTimeout <= 0)
    /\ (f = "ReadTimeout") <=> (a.ReadTimeout <= 0)
    /\ (f = "WriteTimeout") <=> (a.WriteTimeout <= 0)

\* the error validate returns for a broken rule
RuleError(f) ==
    CASE f = "Addr" -> Errorf("redis address cannot be empty")
      [] f = "Network" -> Errorf("redis network cannot be empty")
      [] f = "DB" -> Errorf("redis DB must be non-negative")
      [] f = "PoolSize" -> Errorf("redis pool size must be positive")
      [] f = "DialTimeout" -> Errorf("redis dial timeout must be positive")
      [] f = "ReadTimeout" -> Errorf("redis read timeout must be positive")
      [] f = "WriteTimeout" -> Errorf("redis write timeout must be positive")

RuleFields ==
    { "Addr", "Network", "DB", "PoolSize", "DialTimeout", "ReadTimeout", "WriteTimeout" }

\* C7: validate returns nil exactly when the address and the network are
\* non-empty, DB >= 0, and the pool size and the three timeouts are > 0; with
\* exactly one rule broken it returns that rule's error.
C7_ValidateRules ==
    Validated =>
        LET a == validateIn.AsynqConfig
        IN /\ (validateOut.err = ErrNil) <=>
                  /\ a.Addr # "" /\ a.Network # "" /\ a.DB >= 0 /\ a.PoolSize > 0
                  /\ a.DialTimeout > 0 /\ a.ReadTimeout > 0 /\ a.WriteTimeout > 0
           /\ \A f \in RuleFields : OnlyBroken(a, f) => validateOut.err = RuleError(f)

\* C7 witness: validate was applied to a config whose only fault is a write
\* timeout of 0, and returned the write-timeout error.
C7_Witness ==
    /\ Validated
    /\ OnlyBroken(validateIn.AsynqConfig, "WriteTimeout")
    /\ validateIn.AsynqConfig.WriteTimeout = 0
    /\ validateOut.err = Errorf("redis write timeout must be positive")

\* C8: validate accepts a connection config only when its network is tcp or
\* unix; a config with any other network is rejected.
C8_RecognizedNetworkOnly ==
    Validated =>
        (validateOut.err = ErrNil => validateIn.AsynqConfig.Network \in { "tcp", "unix" })

\* C9: a BuildServer call with concurrency <= 0 returns the "concurrency must
\* be positive" error and a nil server, and makes no asynq.NewServer call,
\* whatever the connection config of the builder is.
C9_InvalidConcurrencyRejected ==
    [][ (buildOut' # NILREC /\ buildOut'.op = "BuildServer" /\ buildOut'.concurrency <= 0) =>
            /\ buildOut'.err = Errorf("concurrency must be positive")
            /\ buildOut'.server = NILREC
            /\ newServerCalls' = newServerCalls ]_vars

\* C9 witness: BuildServer(0) was rejected on a builder whose connection
\* config is valid, after an earlier BuildServer call had built a server.
C9_Witness ==
    /\ buildOut # NILREC /\ buildOut.op = "BuildServer" /\ buildOut.concurrency = 0
    /\ sb # NILREC /\ sb.config.AsynqConfig = ValidAsynq
    /\ buildOut.err = Errorf("concurrency must be positive")
    /\ Len(newServerCalls) = 1

\* C10: every asynq.NewServer call, on every path, is given a connection config
\* that passes validate.
C10_NewServerOnlyValidated ==
    \A i \in 1 .. Len(newServerCalls) : validate(newServerCalls[i].opt) = ErrNil

\* C11: BuildServerWithDefaults passes the builder config's concurrency to
\* BuildServer when it is > 0 and the fallback 10 exactly when it is <= 0, so
\* the call never returns the "concurrency must be positive" error; a server it
\* builds has that concurrency.
C11_DefaultsConcurrency ==
    [][ (buildOut' # NILREC /\ buildOut'.op = "BuildServerWithDefaults") =>
            /\ sb.config.Concurrency > 0 => buildOut'.concurrency = sb.config.Concurrency
            /\ (buildOut'.concurrency = FallbackConcurrency
                    /\ sb.config.Concurrency # FallbackConcurrency)
                 <=> sb.config.Concurrency <= 0
            /\ buildOut'.err # Errorf("concurrency must be positive")
            /\ buildOut'.server # NILREC =>
                    /\ newServerCalls' = Append(newServerCalls,
                            newServerCalls'[Len(newServerCalls')])
                    /\ newServerCalls'[Len(newServerCalls')].concurrency
                            = buildOut'.concurrency ]_vars

\* C11 witness: BuildServerWithDefaults on a builder whose config has
\* concurrency 0 and a valid connection config built a server with 10.
C11_Witness ==
    /\ buildOut # NILREC /\ buildOut.op = "BuildServerWithDefaults"
    /\ sb # NILREC /\ sb.config.Concurrency = 0
    /\ buildOut.err = ErrNil /\ buildOut.server # NILREC
    /\ buildOut.server.concurrency = FallbackConcurrency

\* the actions the controller recognizes
RecognizedActions == ControlAction \cup { "run" }

\* this step is a dispatcher's call reaching its switch on the action
Dispatched == nCalls' = nCalls + 1 /\ ctlOut'.stage = "dispatch"

\* C12: a control action outside run, install, uninstall, start, stop, restart
\* is answered with the unknown-action error (or, for the empty action, the
\* empty-action error), with no call of the facility's Run or Control and no
\* change of the lifecycle state, by Workerd.Run's dispatcher and by
\* ServiceManager.HandleControl alike.
C12_UnknownActionRejected ==
    [][ (Dispatched /\ ctlOut'.action \notin RecognizedActions) =>
            /\ ctlOut'.done
            /\ ctlOut'.err \in { Errorf("unknown service action"),
                                 Errorf("action cannot be empty") }
            /\ facilityCalls' = facilityCalls
            /\ lifecycle' = lifecycle ]_vars

\* C13: for each action of install, uninstall, start, stop, restart, one
\* dispatcher call makes exactly one service.Control call with that action;
\* a facility failure is returned wrapped, with no second facility call, and a
\* facility success is returned as no error.
C13_ControlDelegatedOnce ==
    [][ (Dispatched /\ ctlOut'.action \in ControlAction) =>
            /\ facilityCalls' = Append(facilityCalls, FacilityCall("Control", ctlOut'.action))
            /\ ctlOut'.done
            /\ ctlOut'.facilityErr # ErrNil =>
                    ctlOut'.err = Wrap("service control action failed", ctlOut'.facilityErr)
            /\ ctlOut'.facilityErr = ErrNil => ctlOut'.err = ErrNil ]_vars

\* C13 witness: Workerd.Run was called twice with the restart flag; the
\* facility failed the first Control call and carried out the second, and
\* each call made one Control call.
C13_Witness ==
    /\ nCalls = 2 /\ w.serviceFlag = "restart"
    /\ facilityCalls = << FacilityCall("Control", "restart"), FacilityCall("Control", "restart") >>
    /\ ctlOut.via = "Workerd.Run" /\ ctlOut.done
    /\ ctlOut.facilityErr = ErrNil /\ ctlOut.err = ErrNil
    /\ Len(chans) = 2

\* the transitions of the lifecycle state machine
LifecycleEdges ==
    { << "Stopped", "Starting" >>, << "Starting", "Running" >>,
      << "Running", "Stopping" >>, << "Stopping", "Stopped" >>,
      << "Starting", "Failed" >> }

\* C14: the lifecycle state moves only along Stopped -> Starting -> Running ->
\* Stopping -> Stopped and Starting -> Failed, and never leaves Failed.
C14_LifecycleOrder ==
    [][ lifecycle' # lifecycle => << lifecycle, lifecycle' >> \in LifecycleEdges ]_vars

\* the last entry of hookLog before position k that is the event ev, or 0
LastBefore(k, ev) ==
    IF \E i \in 1 .. k - 1 : hookLog[i].ev = ev
    THEN CHOOSE i \in 1 .. k - 1 :
            /\ hookLog[i].ev = ev
            /\ \A j \in i + 1 .. k - 1 : hookLog[j].ev # ev
    ELSE 0

\* C15: the Stop hook is entered, and Shutdown requested, only after the last
\* Start hook invocation returned no error and the server's last Start
\* succeeded; never on a server that was not started or failed to start.
C15_StopOnlyAfterStart ==
    \A k \in 1 .. Len(hookLog) :
        hookLog[k].ev \in { "Stop.enter", "srv.Shutdown" } =>
            /\ LastBefore(k, "Start.return") > 0
            /\ hookLog[LastBefore(k, "Start.return")].err = ErrNil
            /\ LastBefore(k, "srv.Start") > 0
            /\ hookLog[LastBefore(k, "srv.Start")].err = ErrNil

\* C15 witness: after a run whose Start failed, a second run started the
\* server and the Stop hook has requested Shutdown.
C15_Witness ==
    /\ Len(hookLog) = 8
    /\ hookLog[2] = HookEvent("srv.Start", Errorf("asynq: server start failed"))
    /\ hookLog[5] = HookEvent("srv.Start", ErrNil)
    /\ hookLog[8].ev = "srv.Shutdown"
    /\ srvState = "shutdown"

\* C16: when the server's Start fails inside the Start hook, the hook returns
\* that error, the worker is not running (the facility's Run is over and the
\* lifecycle state is not Running), and the run action returns a non-nil
\* error wrapping it to its caller.
C16_StartFailureSurfaced ==
    [][ ( /\ Len(hookLog') = Len(hookLog) + 2
          /\ hookLog'[Len(hookLog) + 1].ev = "srv.Start"
          /\ hookLog'[Len(hookLog) + 1].err # ErrNil ) =>
            /\ hookLog'[Len(hookLog) + 2]
                 = HookEvent("Start.return", hookLog'[Len(hookLog) + 1].err)
            /\ lifecycle' # "Running" /\ srvState' # "started" /\ callPc' = "idle"
            /\ ctlOut'.done /\ ctlOut'.action = "run"
            /\ ctlOut'.err # ErrNil
            /\ ctlOut'.err = Wrap("failed to run service", hookLog'[Len(hookLog) + 1].err) ]_vars

\* C16 witness: Workerd.Run with the run flag has returned the wrapped error
\* of a server Start that failed in the Start hook.
C16_Witness ==
    /\ ctlOut # NILREC /\ ctlOut.via = "Workerd.Run" /\ ctlOut.action = "run" /\ ctlOut.done
    /\ ctlOut.err = Wrap("failed to run service", Errorf("asynq: server start failed"))
    /\ hookLog = << HookEvent("Start.enter", ErrNil),
                    HookEvent("srv.Start", Errorf("asynq: server start failed")),
                    HookEvent("Start.return", Errorf("asynq: server start failed")) >>
    /\ lifecycle = "Failed" /\ callPc = "idle"

\* C17: each Stop hook invocation requests Shutdown on the server exactly
\* once, returns only after that request, returns no error, and waits for
\* nothing after the request: its return is enabled as soon as Shutdown was
\* requested.
C17_StopRequestsShutdownOnce ==
    /\ \A k \in 1 .. Len(hookLog) :
        /\ (hookLog[k].ev = "Stop.enter" /\ k < Len(hookLog)) =>
                hookLog[k + 1].ev = "srv.Shutdown"
        /\ hookLog[k].ev = "srv.Shutdown" =>
                /\ k > 1 /\ hookLog[k - 1].ev = "Stop.enter"
                /\ k < Len(hookLog) => hookLog[k + 1].ev = "Stop.return"
        /\ hookLog[k].ev = "Stop.return" =>
                /\ hookLog[k].err = ErrNil
                /\ k > 1 /\ hookLog[k - 1].ev = "srv.Shutdown"
    /\ callPc = "stop_entered" => hookLog[Len(hookLog)].ev = "Stop.enter"
    /\ callPc = "stop_shutdown" =>
            /\ hookLog[Len(hookLog)].ev = "srv.Shutdown"
            /\ ENABLED StopReturn

\* C17 witness: two runs were stopped, each Stop hook having requested
\* Shutdown once and returned no error.
C17_Witness ==
    /\ Len(hookLog) = 12
    /\ hookLog[5].ev = "srv.Shutdown" /\ hookLog[6] = HookEvent("Stop.return", ErrNil)
    /\ hookLog[11].ev = "srv.Shutdown" /\ hookLog[12] = HookEvent("Stop.return", ErrNil)
    /\ lifecycle = "Stopped" /\ ctlOut.done /\ ctlOut.err = ErrNil

\* C18: a controller has one error-draining task on one error channel: no
\* operation after the one that spawned it, a repeated Workerd.Run included,
\* makes a second channel or spawns a second drain task.
C18_OneDrainTask ==
    Len(chans) <= 1

\* what the drain goroutine of channel ch has received so far
Received(ch) == SubSeq(sent[ch], 1, Len(sent[ch]) - Len(chans[ch]))

\* the value is an error, not nil
IsError(v) == ~v.isNil

\* the logged errors that came from channel ch
LoggedOf(ch) == SelectSeq(logged, LAMBDA v : v.ch = ch)

\* C19: every non-nil error the facility puts on an error channel is
\* eventually received by the channel's drain goroutine and logged, in the
\* order sent, while hooks and control actions interleave; nil values are
\* received and not logged; a receive changes neither the lifecycle state nor
\* the server nor the call in progress, and the drain goroutine goes on.
C19_ErrorsDrained ==
    /\ [](\A ch \in 1 .. Len(chans) :
            LoggedOf(ch) = SelectSeq(Received(ch), IsError))
    /\ [][ (\E ch \in 1 .. Len(chans) : Len(chans'[ch]) < Len(chans[ch])) =>
                /\ UNCHANGED << controlVars, hookVars, sent >>
                /\ Len(chans') = Len(chans) ]_vars
    /\ \A ch \in 1 .. MaxRuns, n \in 1 .. MaxErrs :
            (ch <= Len(sent) /\ n <= Len(sent[ch]) /\ IsError(sent[ch][n]))
                ~> (\E i \in 1 .. Len(logged) : logged[i] = ErrValue(ch, n, FALSE))

\* C19 witness: while the worker is Running inside a run action, the drain
\* goroutine has received a nil value and an error from its channel and has
\* logged the error only.
C19_Witness ==
    /\ callPc = "running" /\ lifecycle = "Running"
    /\ Len(chans) = 1 /\ chans[1] = << >>
    /\ sent[1] = << ErrValue(1, 1, TRUE), ErrValue(1, 2, FALSE) >>
    /\ logged = << ErrValue(1, 2, FALSE) >>

\* C20: when the command line gives no -concurrency and neither the file nor
\* the environment sets the concurrency, the server is built with the
\* documented default 10; and the flag layer adds a WithConcurrency option
\* only when the user gave -concurrency with a positive value.
C20_FlagLayerDefaultConcurrency ==
    (argv # NILREC /\ w # NILREC) =>
        /\ (argv.concurrency = << >> /\ env.raw.Concurrency = 0) =>
                w.srv.concurrency = DocumentedConcurrency
        /\ (\E i \in 1 .. Len(opts) : opts[i].kind = "WithConcurrency") =>
                (argv.concurrency # << >> /\ argv.concurrency[1] > 0)

\* the options hold no WithServiceFlag
NoServiceFlagOption(os) == \A i \in 1 .. Len(os) : os[i].kind # "WithServiceFlag"

\* C21: for a Workerd built without a service-flag option, Workerd.Run
\* performs the run action: once newService has succeeded it calls the
\* facility's blocking Run, and it does not return the error of an empty or
\* unknown control action.
C21_StandaloneRun ==
    [][ (Dispatched /\ ctlOut'.via = "Workerd.Run" /\ NoServiceFlagOption(opts)) =>
            /\ facilityCalls' = Append(facilityCalls, FacilityCall("Run", "run"))
            /\ callPc' = "run_called"
            /\ ~ctlOut'.done ]_vars

\* C22: the Workerd's server handle is the one NewWorkerd built, by the one
\* asynq.NewServer call of the process, and no Start hook, Stop hook, control
\* action, facility send or drain step replaces it or builds another server,
\* in Running or in any other lifecycle state.
C22_ServerHandleKept ==
    /\ [](w # NILREC =>
            /\ Len(newServerCalls) = 1
            /\ w.srv = NewServer(newServerCalls[1].opt,
                                 [ Concurrency |-> newServerCalls[1].concurrency ]))
    /\ [][ w # NILREC =>
            /\ w' # NILREC
            /\ w'.srv = w.srv
            /\ newServerCalls' = newServerCalls ]_vars

\* C22 witness: in the second run of a process the worker is Running, after
\* newService has written the Workerd's service logger twice and a drain
\* goroutine has logged an error, with the server NewWorkerd built.
C22_Witness ==
    /\ lifecycle = "Running" /\ nCalls = 2
    /\ w.logger = "serviceLogger"
    /\ Len(hookLog) = 9
    /\ logged # << >>
    /\ w.srv = NewWorkerdOf(opts, newWorkerConfig(env).config).srv

\* what a returned merged configuration holds: its fields, and the
\* workerConfig its Config pointer leads to
MergedContent ==
    IF mergeOut.merged = NILREC
    THEN NILREC
    ELSE [ mergeOut.merged EXCEPT !.Config = heap[mergeOut.merged.Config] ]

\* C23: Merge leaves the merger's three sources and the objects behind them
\* unchanged; a Merge call on unchanged inputs returns what the call before
\* returned; and what a returned merged configuration holds does not change
\* afterwards, whatever the caller does to the defaults or the file object.
C23_MergePure ==
    [][ /\ (mergePc' = "merged" /\ (mergePc # "merged" \/ mergeOut' # mergeOut)) =>
                (heap' = heap /\ cm' = cm)
        /\ (mergePc = "merged" /\ mergePc' = "merged") => mergeOut' = mergeOut
        /\ (MergeSucceeded /\ mergeOut' = mergeOut) =>
                MergedContent' = MergedContent ]_vars

====
